---- MODULE Spec2Model ----
(***************************************************************************)
(* Tensalis Python SDK: the HTTP transport with retries                    *)
(* (TensalisClient._request), the single-shot verifier                     *)
(* (TensalisClient.verify), the verdict wrapper (VerificationResult) and   *)
(* the streaming verification generator (TensalisClient.verify_stream).    *)
(*                                                                         *)
(* Python values: a dict is a TLA+ record (the empty dict is EmptyDict),   *)
(* an Optional value is a sequence of length 0 (None) or 1, a str that is  *)
(* split into tokens is a sequence of one-character strings.               *)
(***************************************************************************)
EXTENDS Integers, Sequences, FiniteSets, TLC

VARIABLES
    retries,        \* TensalisClient.retries
    request,        \* arguments of the _request call in progress
    rq,             \* locals and effects of the _request call in progress
    context,        \* verify_stream: context argument, as passed by the caller
    check_interval, \* verify_stream: check_interval argument
    pc,             \* verify_stream generator: where it is suspended
    accumulated,    \* verify_stream local
    token_count,    \* verify_stream local
    result,         \* verify_stream local (Optional VerificationResult)
    pulled,         \* chunks the generator has taken from response_stream
    calls,          \* self.verify calls made by the generator, with outcome
    received,       \* what each next() of the consumer got
    args,           \* arguments of the verify call in progress
    vpc,            \* where the verify call in progress is
    returned,       \* what the verify call returned or raised (Optional)
    heap,           \* the dict objects in memory, by identity
    verdict,        \* a VerificationResult object (Optional)
    built,          \* the attributes that object had when it was constructed
    sessions        \* the frames of the verify_stream generators of one client

vars == <<retries, request, rq, context, check_interval, pc, accumulated,
          token_count, result, pulled, calls, received,
          args, vpc, returned, heap, verdict, built, sessions>>

verifyVars == <<args, vpc, returned>>
verdictVars == <<heap, verdict, built>>
pairVars == <<sessions>>

----------------------------------------------------------------------------
(* Bounds of the model *)

MaxRetries == 3
MaxChunks == 4
MaxInterval == 2
MaxRequests == 6

(* Program constants *)

DefaultRetries == 3
DefaultRetryAfter == 1
RateLimited == 429
ErrorFloor == 400

----------------------------------------------------------------------------
(* Python helpers *)

None == <<>>
Some(v) == <<v>>
EmptyDict == [k \in {} |-> "x"]

\* dict.get(key, default)
Get(d, key, default) == IF key \in DOMAIN d THEN d[key] ELSE default

RECURSIVE Pow2(_)
Pow2(n) == IF n <= 0 THEN 1 ELSE 2 * Pow2(n - 1)

----------------------------------------------------------------------------
(* Exceptions raised by the client *)

TensalisTimeoutError == [type |-> "TensalisTimeoutError"]
TensalisRequestFailed == [type |-> "TensalisError", message |-> "Request failed: e"]
TensalisRetriesFailed ==
    [type |-> "TensalisError", message |-> "Request failed after retries"]
TensalisAPIError(message, status_code, response) ==
    [type |-> "TensalisAPIError", message |-> message,
     status_code |-> status_code, response |-> response]

----------------------------------------------------------------------------
(* What one self._session.request(...) can do: raise requests.Timeout,     *)
(* raise another requests.RequestException, or return a response.          *)

HttpResponse(code, retry_after, content) ==
    [exc |-> "none", status_code |-> code, retry_after |-> retry_after,
     content |-> content]

Payloads ==
    { EmptyDict,
      [status |-> "VERIFIED"],
      [status |-> "WARNING", severity |-> "LOW"],
      [status |-> "BLOCKED", severity |-> "HIGH"] }

TimeoutResponses == { [exc |-> "Timeout"] }
FailureResponses == { [exc |-> "RequestException"] }
RateLimitResponses ==
    { HttpResponse(RateLimited, None, None), HttpResponse(RateLimited, Some(2), None) }
ErrorResponses ==
    { HttpResponse(400, None, Some([error |-> "Invalid request"])),
      HttpResponse(500, None, None) }
OkResponses == { HttpResponse(200, None, Some(p)) : p \in Payloads }

Responses ==
    TimeoutResponses \cup FailureResponses \cup RateLimitResponses
        \cup ErrorResponses \cup OkResponses

----------------------------------------------------------------------------
(* TensalisClient._request *)

Return(v) == [kind |-> "return", value |-> v]
Raise(e) == [kind |-> "raise", error |-> e]

\* journal of a call: each self._session.request with its answer, each time.sleep
RequestEvent(req, attempt, resp) ==
    [ev |-> "request", attempt |-> attempt, req |-> req, answer |-> resp]
SleepEvent(secs) == [ev |-> "sleep", secs |-> secs]

\* locals at the head of the for loop, before the first iteration
RequestStart == [attempt |-> 0, last_error |-> None, log |-> <<>>, outcome |-> None]

\* variant: the Retry-After header is not read
RetryAfterIgnored(resp) == DefaultRetryAfter

\* int(response.headers.get("Retry-After", 1))
RetryAfter(resp) ==
    IF resp.retry_after = None THEN DefaultRetryAfter ELSE resp.retry_after[1]

\* variant: the error body is not parsed
ErrorDataDropped(resp) == EmptyDict

\* response.json() if response.content else {}
ErrorData(resp) == IF resp.content = None THEN EmptyDict ELSE resp.content[1]

\* variant: the delay doubles with each failure, rate-limited attempts apart
BackoffCountsFailures(st, n) ==
    LET failures == { i \in 1..Len(st.log) :
                        /\ st.log[i].ev = "request"
                        /\ st.log[i].answer.exc \in {"Timeout", "RequestException"} }
    IN  [st EXCEPT !.log = IF st.attempt < n - 1
                             THEN Append(@, SleepEvent(Pow2(Cardinality(failures) - 1)))
                             ELSE @,
                   !.attempt = @ + 1]

\* variant: the sleep is not skipped after the last attempt
BackoffAlwaysSleeps(st, n) ==
    [st EXCEPT !.log = Append(@, SleepEvent(Pow2(st.attempt))),
               !.attempt = @ + 1]

\* the code after the except clauses: exponential backoff, next iteration
Backoff(st, n) ==
    [st EXCEPT !.log = IF st.attempt < n - 1
                         THEN Append(@, SleepEvent(Pow2(st.attempt)))
                         ELSE @,
               !.attempt = @ + 1]

\* one iteration of the for loop, the request answering resp
LoopIteration(st, resp, n, req) ==
    LET sent == [st EXCEPT !.log = Append(@, RequestEvent(req, st.attempt, resp))]
    IN  IF resp.exc = "Timeout"
          THEN Backoff([sent EXCEPT !.last_error = Some(TensalisTimeoutError)], n)
        ELSE IF resp.exc = "RequestException"
          THEN Backoff([sent EXCEPT !.last_error = Some(TensalisRequestFailed)], n)
        ELSE IF resp.status_code = RateLimited
          THEN [sent EXCEPT !.log = Append(@, SleepEvent(RetryAfter(resp))),
                            !.attempt = @ + 1]
        ELSE IF resp.status_code >= ErrorFloor
          THEN [sent EXCEPT !.outcome =
                   Some(Raise(TensalisAPIError(
                       Get(ErrorData(resp), "error", "Unknown error"),
                       resp.status_code, ErrorData(resp))))]
        ELSE [sent EXCEPT !.outcome = Some(Return(resp.content[1]))]

\* variant: the body runs once before the budget is looked at
LoopContinuesAfterFirst(st, n) == st.attempt = 0 \/ st.attempt < n

\* variant: one iteration too many
LoopContinuesOffByOne(st, n) == st.attempt <= n

\* range(self.retries) still has an element
LoopContinues(st, n) == st.attempt < n

\* raise last_error or TensalisError("Request failed after retries")
LoopExit(st) ==
    [st EXCEPT !.outcome =
        Some(Raise(IF st.last_error # None THEN st.last_error[1]
                                           ELSE TensalisRetriesFailed))]

\* the whole call, the k-th request answering script[k]
RECURSIVE RunFrom(_, _, _, _)
RunFrom(st, script, n, req) ==
    IF st.outcome # None THEN st
    ELSE IF LoopContinues(st, n)
      THEN RunFrom(LoopIteration(st, script[st.attempt + 1], n, req), script, n, req)
    ELSE LoopExit(st)

_request(script, n, req) == RunFrom(RequestStart, script, n, req)

----------------------------------------------------------------------------
(* Callers of _request *)

HealthRequest == [method |-> "GET", path |-> "/health", payload |-> None]
VerifyRequest(payload) == [method |-> "POST", path |-> "/verify", payload |-> Some(payload)]

Requests ==
    { HealthRequest,
      VerifyRequest([response |-> "text", reference_facts |-> <<"fact">>]) }

----------------------------------------------------------------------------
(* A _request call, one loop iteration per step *)

StreamIdle ==
    /\ context = <<>>
    /\ check_interval = 1
    /\ pc = "idle"
    /\ accumulated = <<>>
    /\ token_count = 0
    /\ result = None
    /\ pulled = <<>>
    /\ calls = <<>>
    /\ received = <<>>

streamVars == <<context, check_interval, pc, accumulated, token_count, result,
                pulled, calls, received>>

\* no verify call, no VerificationResult object, no second generator in use
VerifyIdle == args = None /\ vpc = "idle" /\ returned = None
VerdictIdle == heap = EmptyDict /\ verdict = None /\ built = None
PairIdle == sessions = EmptyDict

InitRequest ==
    /\ retries \in 0..MaxRetries
    /\ request \in Requests
    /\ rq = RequestStart
    /\ StreamIdle
    /\ VerifyIdle
    /\ VerdictIdle
    /\ PairIdle

Running == rq.outcome = None

\* one more iteration of the for loop, self._session.request answering resp
Attempt(resp) ==
    /\ Running
    /\ LoopContinues(rq, retries)
    /\ rq' = LoopIteration(rq, resp, retries, request)

AttemptTimesOut ==
    /\ \E resp \in TimeoutResponses : Attempt(resp)
    /\ UNCHANGED <<retries, request, streamVars, verifyVars, verdictVars, pairVars>>

AttemptFails ==
    /\ \E resp \in FailureResponses : Attempt(resp)
    /\ UNCHANGED <<retries, request, streamVars, verifyVars, verdictVars, pairVars>>

AttemptRateLimited ==
    /\ \E resp \in RateLimitResponses : Attempt(resp)
    /\ UNCHANGED <<retries, request, streamVars, verifyVars, verdictVars, pairVars>>

AttemptRejected ==
    /\ \E resp \in ErrorResponses : Attempt(resp)
    /\ UNCHANGED <<retries, request, streamVars, verifyVars, verdictVars, pairVars>>

AttemptAnswered ==
    /\ \E resp \in OkResponses : Attempt(resp)
    /\ UNCHANGED <<retries, request, streamVars, verifyVars, verdictVars, pairVars>>

\* range(self.retries) is used up: the raise after the loop
BudgetExhausted ==
    /\ Running
    /\ ~LoopContinues(rq, retries)
    /\ rq' = LoopExit(rq)
    /\ UNCHANGED <<retries, request, streamVars, verifyVars, verdictVars, pairVars>>

NextRequest ==
    \/ AttemptTimesOut
    \/ AttemptFails
    \/ AttemptRateLimited
    \/ AttemptRejected
    \/ AttemptAnswered
    \/ BudgetExhausted

SpecRequest == InitRequest /\ [][NextRequest]_vars

----------------------------------------------------------------------------
(* VerificationResult *)

VerificationResult(data) == [data |-> data]

\* variant: an absent status is not read as VERIFIED
statusDefaultsToWarning(r) == Get(r.data, "status", "WARNING")

status(r) == Get(r.data, "status", "VERIFIED")
is_blocked(r) == status(r) = "BLOCKED"
\* variant: everything that is not blocked counts as verified
is_verifiedUnlessBlocked(r) == status(r) # "BLOCKED"

is_verified(r) == status(r) = "VERIFIED"
to_dict(r) == r.data

----------------------------------------------------------------------------
(* TensalisClient.verify *)

StrContext(s) == [type |-> "str", value |-> s]
ListContext(l) == [type |-> "list", items |-> l]

\* the characters of the str values the model passes as context
Chars(str) == IF str = "fact" THEN <<"f", "a", "c", "t">> ELSE <<>>

\* variant: context = list(context), which splits a str into its characters
NormalizeContextSplits(c) == IF c.type = "str" THEN ListContext(Chars(c.value)) ELSE c

\* if isinstance(context, str): context = [context]
NormalizeContext(c) == IF c.type = "str" THEN ListContext(<<c.value>>) ELSE c

\* the dict passed to _request as payload; metadata only when truthy
VerifyPayload(response, c, metadata) ==
    IF metadata = None \/ metadata = Some(EmptyDict)
      THEN [response |-> response, reference_facts |-> NormalizeContext(c).items]
      ELSE [response |-> response, reference_facts |-> NormalizeContext(c).items,
            metadata |-> metadata[1]]

\* what every complete _request call of a client with n retries can end in
Scripts(n) == [1..n -> Responses]
RequestOutcomes == 
    [n \in 0..MaxRetries |->
        { _request(script, n, HealthRequest).outcome[1] : script \in Scripts(n) }]

\* self._request("POST", "/verify", payload) ending in out, then the wrapping
verify(response, c, metadata, out) ==
    [payload |-> VerifyPayload(response, c, metadata),
     outcome |-> IF out.kind = "return"
                   THEN Return(VerificationResult(out.value))
                   ELSE out]

----------------------------------------------------------------------------
(* TensalisClient.verify_stream: a generator, driven by the consumer's     *)
(* next().  pc is the place the generator is suspended at:                 *)
(*   "start"          created, body not entered yet                        *)
(*   "yield_checked"  at the yield that follows self.verify                *)
(*   "yield_pending"  at the yield of the else branch                      *)
(*   "done"           returned or raised                                   *)

\* str.split(): the maximal runs of non-whitespace characters
IsSpace(ch) == ch = " "
Split(s) == { i \in 1..Len(s) : ~IsSpace(s[i]) /\ (i = 1 \/ IsSpace(s[i - 1])) }
TokenCount(s) == Cardinality(Split(s))

ChunkSet == { <<"a", " ">>, <<"b">>, <<"c", " ", "d">> }
Contexts == { StrContext("fact"), ListContext(<<"fact">>) }

\* what a next() of the consumer gets
Unit(u) == [kind |-> "unit", unit |-> u]
StopIteration == [kind |-> "StopIteration"]
Raised(e) == [kind |-> "raised", error |-> e]

\* variant: the check waits until the counter exceeds the interval
ThresholdExceeded(count, interval) == count > interval

\* if token_count >= check_interval
ThresholdReached(count, interval) == count >= interval

\* variant: only the current chunk is sent
CheckedTextChunkOnly(acc, chunk) == chunk

\* the response argument of self.verify
CheckedText(acc, chunk) == acc

\* variant: the verdict is attached to every checked unit
CheckedUnitAlwaysVerdict(chunk, res) ==
    [text |-> chunk, status |-> status(res), result |-> Some(to_dict(res))]

\* variant: the verdict is not attached to the unit
CheckedUnitNoVerdict(chunk, res) ==
    [text |-> chunk, status |-> status(res), result |-> None]

CheckedUnit(chunk, res) ==
    [text |-> chunk, status |-> status(res),
     result |-> IF is_blocked(res) THEN Some(to_dict(res)) ELSE None]

\* variant: the unit carries the accumulated text instead of the chunk
PendingUnitAccumulated(chunk) ==
    [text |-> accumulated \o chunk, status |-> "PENDING", result |-> None]

PendingUnit(chunk) == [text |-> chunk, status |-> "PENDING", result |-> None]

\* variant: every verdict that is not VERIFIED ends the stream
ReturnsOnResumeUnlessVerified == pc = "yield_checked" /\ ~is_verified(result[1])

\* variant: the return after a blocked verdict is missing
ReturnsOnResumeNever == FALSE

\* resuming after the yield that follows self.verify: if result.is_blocked: return
ReturnsOnResume == pc = "yield_checked" /\ is_blocked(result[1])

\* variant: the counter is reduced by the interval instead of reset
CountReduced == IF pc = "yield_checked" THEN token_count - check_interval ELSE token_count

\* variant: token_count = 0 is missing
CountNotReset == token_count

\* token_count when the for statement asks response_stream for the next chunk
\* (resuming after a non-blocked check runs token_count = 0 first)
CountAtLoopHead == IF pc = "yield_checked" THEN 0 ELSE token_count

\* the next() of the consumer runs the generator up to `for chunk in response_stream`
ReachesLoopHead ==
    /\ Len(received) < MaxRequests
    /\ pc \in {"start", "yield_checked", "yield_pending"}
    /\ ~ReturnsOnResume

InitStream ==
    /\ retries = DefaultRetries
    /\ request = HealthRequest
    /\ rq = RequestStart
    /\ context \in Contexts
    /\ check_interval \in 1..MaxInterval
    /\ pc = "start"
    /\ accumulated = <<>>
    /\ token_count = 0
    /\ result = None
    /\ pulled = <<>>
    /\ calls = <<>>
    /\ received = <<>>
    /\ VerifyIdle
    /\ VerdictIdle
    /\ PairIdle

config == <<retries, request, rq, context, check_interval>>

\* variant: the generator reads one chunk ahead of the consumer
NextPendingPrefetch ==
    /\ ReachesLoopHead
    /\ Len(pulled) < MaxChunks
    /\ \E chunk \in ChunkSet, ahead \in ChunkSet :
         /\ ~ThresholdReached(CountAtLoopHead + TokenCount(chunk), check_interval)
         /\ pulled' = Append(Append(pulled, chunk), ahead)
         /\ accumulated' = accumulated \o chunk
         /\ token_count' = CountAtLoopHead + TokenCount(chunk)
         /\ received' = Append(received, Unit(PendingUnit(chunk)))
    /\ pc' = "yield_pending"
    /\ UNCHANGED <<config, verifyVars, verdictVars, pairVars, result, calls>>

\* next(): a chunk arrives, the threshold is not reached
NextPending ==
    /\ ReachesLoopHead
    /\ Len(pulled) < MaxChunks
    /\ \E chunk \in ChunkSet :
         /\ ~ThresholdReached(CountAtLoopHead + TokenCount(chunk), check_interval)
         /\ pulled' = Append(pulled, chunk)
         /\ accumulated' = accumulated \o chunk
         /\ token_count' = CountAtLoopHead + TokenCount(chunk)
         /\ received' = Append(received, Unit(PendingUnit(chunk)))
    /\ pc' = "yield_pending"
    /\ UNCHANGED <<config, verifyVars, verdictVars, pairVars, result, calls>>

\* next(): a chunk arrives, the threshold is reached, self.verify returns
NextChecked ==
    /\ ReachesLoopHead
    /\ Len(pulled) < MaxChunks
    /\ \E chunk \in ChunkSet, out \in RequestOutcomes[retries] :
         LET call == verify(CheckedText(accumulated \o chunk, chunk), context, None, out)
         IN  /\ ThresholdReached(CountAtLoopHead + TokenCount(chunk), check_interval)
             /\ call.outcome.kind = "return"
             /\ pulled' = Append(pulled, chunk)
             /\ accumulated' = accumulated \o chunk
             /\ token_count' = CountAtLoopHead + TokenCount(chunk)
             /\ calls' = Append(calls, call)
             /\ result' = Some(call.outcome.value)
             /\ received' = Append(received, Unit(CheckedUnit(chunk, call.outcome.value)))
    /\ pc' = "yield_checked"
    /\ UNCHANGED <<config, verifyVars, verdictVars, pairVars>>

\* variant: the error of self.verify is swallowed and the chunk passed through
NextVerifySwallows ==
    /\ ReachesLoopHead
    /\ Len(pulled) < MaxChunks
    /\ \E chunk \in ChunkSet, out \in RequestOutcomes[retries] :
         LET call == verify(CheckedText(accumulated \o chunk, chunk), context, None, out)
         IN  /\ ThresholdReached(CountAtLoopHead + TokenCount(chunk), check_interval)
             /\ call.outcome.kind = "raise"
             /\ pulled' = Append(pulled, chunk)
             /\ accumulated' = accumulated \o chunk
             /\ token_count' = CountAtLoopHead + TokenCount(chunk)
             /\ calls' = Append(calls, call)
             /\ received' = Append(received, Unit(PendingUnit(chunk)))
    /\ pc' = "yield_pending"
    /\ UNCHANGED <<config, verifyVars, verdictVars, pairVars, result>>

\* next(): a chunk arrives, the threshold is reached, self.verify raises
NextVerifyRaises ==
    /\ ReachesLoopHead
    /\ Len(pulled) < MaxChunks
    /\ \E chunk \in ChunkSet, out \in RequestOutcomes[retries] :
         LET call == verify(CheckedText(accumulated \o chunk, chunk), context, None, out)
         IN  /\ ThresholdReached(CountAtLoopHead + TokenCount(chunk), check_interval)
             /\ call.outcome.kind = "raise"
             /\ pulled' = Append(pulled, chunk)
             /\ accumulated' = accumulated \o chunk
             /\ token_count' = CountAtLoopHead + TokenCount(chunk)
             /\ calls' = Append(calls, call)
             /\ received' = Append(received, Raised(call.outcome.error))
    /\ pc' = "done"
    /\ UNCHANGED <<config, verifyVars, verdictVars, pairVars, result>>

\* variant: at the end of response_stream the generator waits instead of ending
NextExhaustedWaits ==
    /\ ReachesLoopHead
    /\ UNCHANGED vars

\* variant: a remainder below the threshold is verified when the stream ends
NextExhaustedFlush ==
    /\ ReachesLoopHead
    /\ token_count' = CountAtLoopHead
    /\ pc' = "done"
    /\ received' = Append(received, StopIteration)
    /\ IF CountAtLoopHead > 0
         THEN \E out \in RequestOutcomes[retries] :
                /\ out.kind = "return"
                /\ calls' = Append(calls, verify(accumulated, context, None, out))
         ELSE calls' = calls
    /\ UNCHANGED <<config, verifyVars, verdictVars, pairVars, accumulated, result, pulled>>

\* next(): response_stream is exhausted, the for loop and the generator end
NextExhausted ==
    /\ ReachesLoopHead
    /\ token_count' = CountAtLoopHead
    /\ pc' = "done"
    /\ received' = Append(received, StopIteration)
    /\ UNCHANGED <<config, verifyVars, verdictVars, pairVars, accumulated, result, pulled, calls>>

\* next() after the BLOCKED unit: the generator returns
NextAfterBlocked ==
    /\ Len(received) < MaxRequests
    /\ ReturnsOnResume
    /\ pc' = "done"
    /\ received' = Append(received, StopIteration)
    /\ UNCHANGED <<config, verifyVars, verdictVars, pairVars, accumulated, token_count, result, pulled, calls>>

\* next() on the finished generator
NextAfterEnd ==
    /\ Len(received) < MaxRequests
    /\ pc = "done"
    /\ received' = Append(received, StopIteration)
    /\ UNCHANGED <<config, verifyVars, verdictVars, pairVars, pc, accumulated, token_count, result, pulled, calls>>

NextStream ==
    \/ NextPending
    \/ NextChecked
    \/ NextVerifyRaises
    \/ NextExhausted
    \/ NextAfterBlocked
    \/ NextAfterEnd

SpecStream == InitStream /\ [][NextStream]_vars

----------------------------------------------------------------------------
(* Observations used by the properties *)

RECURSIVE Concat(_)
Concat(chunks) ==
    IF chunks = <<>> THEN <<>> ELSE Head(chunks) \o Concat(Tail(chunks))

IsPrefix(s, t) == Len(s) <= Len(t) /\ SubSeq(t, 1, Len(s)) = s

IsUnit(r) == r.kind = "unit"
Units == SelectSeq(received, IsUnit)
UnitTexts == [i \in 1..Len(Units) |-> Units[i].unit.text]
BlockedUnits == { i \in 1..Len(Units) : Units[i].unit.status = "BLOCKED" }
CheckedUnits == { i \in 1..Len(Units) : Units[i].unit.status # "PENDING" }

BlockedCalls ==
    { i \in 1..Len(calls) :
        calls[i].outcome.kind = "return" /\ is_blocked(calls[i].outcome.value) }
RaisedCalls == { i \in 1..Len(calls) : calls[i].outcome.kind = "raise" }

\* position of the last unit that was emitted after a check, 0 when there is none
LastChecked == IF CheckedUnits = {} THEN 0
               ELSE CHOOSE i \in CheckedUnits : \A j \in CheckedUnits : j <= i

\* the sequence ended because response_stream was exhausted
Exhausted == pc = "done" /\ BlockedCalls = {} /\ RaisedCalls = {}

SingleTokenChunks == \A i \in 1..Len(pulled) : TokenCount(pulled[i]) = 1

\* results of next() from position i on
OnlyStopIterationAfter(i) ==
    \A j \in (i + 1)..Len(received) : received[j] = StopIteration

IsRequest(e) == e.ev = "request"
IsSleep(e) == e.ev = "sleep"
Attempts == SelectSeq(rq.log, IsRequest)
Sleeps == SelectSeq(rq.log, IsSleep)
Finished == rq.outcome # None

----------------------------------------------------------------------------
(* Properties of verify_stream, checked under SpecStream *)

\* C1: once a verification call has returned a BLOCKED verdict, exactly one
\* unit with status BLOCKED has been emitted, it is the last unit, every later
\* next() gets StopIteration, and from then on no chunk is pulled and no
\* verification call is made.
C1_BlockedEndsTheStream ==
    /\ [](BlockedCalls # {} =>
            /\ BlockedCalls = {Len(calls)}
            /\ BlockedUnits = {Len(Units)}
            /\ \E i \in 1..Len(received) :
                 /\ received[i] = Units[Len(Units)]
                 /\ OnlyStopIterationAfter(i))
    /\ [](BlockedCalls = {} => BlockedUnits = {})
    /\ [][BlockedCalls # {} => pulled' = pulled /\ calls' = calls]_vars

C1_Witness ==
    /\ BlockedCalls # {}
    /\ Len(pulled) < MaxChunks
    /\ Len(Units) >= 2
    /\ Len(received) >= Len(Units) + 2

\* C2: every verification call gets as response text the concatenation, in
\* source order, of all chunks pulled so far, the current one included; each
\* check's text extends the text of the check before it.
C2_ChecksSeeWholeText ==
    [][Len(calls') > Len(calls) =>
         /\ calls' = Append(calls, calls'[Len(calls')])
         /\ calls'[Len(calls')].payload.response = Concat(pulled')
         /\ calls # <<>> =>
              IsPrefix(calls[Len(calls)].payload.response,
                       calls'[Len(calls')].payload.response)]_vars

C2_Witness ==
    /\ Len(calls) >= 2
    /\ Len(pulled) >= 3
    /\ calls[Len(calls)].payload.response = Concat(pulled)
    /\ calls[Len(calls)].payload.response # pulled[Len(pulled)]
    /\ calls[Len(calls)].payload.response # calls[1].payload.response

\* C3: single-token chunks, no BLOCKED verdict, consumed to exhaustion: exactly
\* floor(total tokens / check_interval) verification calls were made, the i-th
\* when i * check_interval tokens had been consumed.
C3_OneCheckPerInterval ==
    (Exhausted /\ SingleTokenChunks) =>
        /\ Len(calls) = Len(pulled) \div check_interval
        /\ \A i \in 1..Len(calls) :
             calls[i].payload.response =
                 Concat(SubSeq(pulled, 1, i * check_interval))

C3_Witness ==
    /\ Exhausted
    /\ SingleTokenChunks
    /\ check_interval = 2
    /\ Len(pulled) = 4
    /\ Len(calls) = 2

\* C4: while every verification call returns a verdict that is not BLOCKED,
\* the units emitted are one per chunk pulled, in source order, each with the
\* chunk's raw text, none BLOCKED; at exhaustion of n single-token chunks
\* exactly floor(n / check_interval) units are not PENDING.
C4_OneUnitPerChunk ==
    (BlockedCalls = {} /\ RaisedCalls = {}) =>
        /\ UnitTexts = pulled
        /\ BlockedUnits = {}
        /\ (Exhausted /\ SingleTokenChunks) =>
              Cardinality(CheckedUnits) = Len(pulled) \div check_interval

C4_Witness ==
    /\ Exhausted
    /\ SingleTokenChunks
    /\ Len(pulled) = 4
    /\ check_interval = 2
    /\ Cardinality(CheckedUnits) = 2
    /\ pulled[1] # pulled[2]
    /\ Len(Units) = 4

\* C5 as stated: when a check returns a blocked verdict the terminal unit
\* carries the verdict and no raw text of the triggering chunk is emitted, so
\* the text emitted in all units is the text of the chunks before it.
C5_NoTextInBlockedUnit ==
    BlockedCalls # {} =>
        /\ Units[Len(Units)].unit.result =
               Some(to_dict(calls[Len(calls)].outcome.value))
        /\ Concat(UnitTexts) = Concat(SubSeq(pulled, 1, Len(pulled) - 1))

\* C5 amended: when a check returns a blocked verdict, the one unit emitted
\* for the triggering chunk is the terminal unit: it has status BLOCKED,
\* carries the blocking verdict in `result`, and its `text` is the raw text
\* of the triggering chunk.
C5_BlockedUnitCarriesVerdictAndText ==
    BlockedCalls # {} =>
        /\ Len(Units) = Len(pulled)
        /\ Units[Len(Units)].unit.status = "BLOCKED"
        /\ Units[Len(Units)].unit.result =
               Some(to_dict(calls[Len(calls)].outcome.value))
        /\ Units[Len(Units)].unit.text = pulled[Len(pulled)]
        /\ \A i \in 1..(Len(Units) - 1) : Units[i].unit.result = None

C5_Witness ==
    /\ BlockedCalls # {}
    /\ Len(Units) >= 2
    /\ Units[Len(Units)].unit.result = Some([status |-> "BLOCKED", severity |-> "HIGH"])
    /\ Units[Len(Units)].unit.text # <<>>

\* C6: when the source is exhausted before any blocked verdict the sequence
\* ends with StopIteration and no error, the step that ends it makes no
\* verification call, and the chunks after the last check were emitted as
\* units but are part of no text sent for verification.
C6_NoCheckAtEndOfStream ==
    Exhausted =>
        /\ received # <<>>
        /\ received[Len(received)] = StopIteration
        /\ \A i \in 1..Len(received) : received[i].kind # "raised"
        /\ UnitTexts = pulled
        /\ Len(calls) = Cardinality(CheckedUnits)
        /\ \A i \in 1..Len(calls) :
             IsPrefix(calls[i].payload.response,
                      Concat(SubSeq(pulled, 1, LastChecked)))

C6_Witness ==
    /\ Exhausted
    /\ Len(calls) >= 1
    /\ LastChecked < Len(pulled)

\* C7: when a verification call raises, the next() that triggered the check
\* gets that same error, no unit is emitted for the chunk being checked, and
\* the sequence is over: every later next() gets StopIteration, no chunk is
\* pulled, no verification call is made and no unit is emitted.
C7_ErrorEndsTheStream ==
    /\ [][(Len(calls') > Len(calls) /\ calls'[Len(calls')].outcome.kind = "raise") =>
            /\ received' = Append(received, Raised(calls'[Len(calls')].outcome.error))
            /\ Len(pulled') = Len(pulled) + 1
            /\ Units' = Units]_vars
    /\ [](RaisedCalls # {} =>
            /\ RaisedCalls = {Len(calls)}
            /\ Len(Units) = Len(pulled) - 1
            /\ \E i \in 1..Len(received) :
                 /\ received[i] = Raised(calls[Len(calls)].outcome.error)
                 /\ OnlyStopIterationAfter(i))
    /\ [][RaisedCalls # {} =>
            pulled' = pulled /\ calls' = calls /\ Units' = Units]_vars

C7_Witness ==
    /\ RaisedCalls # {}
    /\ calls[Len(calls)].outcome.error.type = "TensalisAPIError"
    /\ Len(pulled) \in 2..(MaxChunks - 1)
    /\ Len(Units) = Len(pulled) - 1
    /\ received[Len(received)] = StopIteration
    /\ received[Len(received) - 1] = StopIteration

\* C8: the generator is driven by the consumer: the chunks pulled never
\* outnumber the next() requests, one request pulls at most one chunk, makes
\* at most one verification call and gets one result, and a step without a
\* request changes nothing.
C8_ConsumerDriven ==
    /\ [](Len(pulled) <= Len(received) /\ Len(calls) <= Len(pulled))
    /\ [][/\ Len(received') = Len(received) + 1
          /\ Len(pulled') \in {Len(pulled), Len(pulled) + 1}
          /\ Len(calls') \in {Len(calls), Len(calls) + 1}
          /\ SubSeq(pulled', 1, Len(pulled)) = pulled
          /\ SubSeq(calls', 1, Len(calls)) = calls]_vars

C8_Witness ==
    /\ Len(received) = 3
    /\ Len(pulled) = 3
    /\ Len(calls) = 1
    /\ pc = "yield_pending"

----------------------------------------------------------------------------
(* Properties of _request, checked under SpecRequest *)

\* C9: whatever the answers, a _request call issues at most `retries` HTTP
\* requests.
C9_AtMostRetriesAttempts ==
    /\ Len(Attempts) <= retries
    /\ \A i \in 1..Len(Attempts) : Attempts[i].attempt = i - 1

C9_Witness ==
    /\ Finished
    /\ retries = DefaultRetries
    /\ Len(Attempts) = retries
    /\ Attempts[1].answer \in RateLimitResponses
    /\ Attempts[2].answer \in TimeoutResponses
    /\ Attempts[3].answer \in OkResponses

\* the journal of a call of n attempts that all time out, from attempt k on
RECURSIVE TimeoutJournal(_, _, _)
TimeoutJournal(k, n, req) ==
    IF k >= n THEN <<>>
    ELSE <<RequestEvent(req, k, [exc |-> "Timeout"])>>
           \o (IF k < n - 1 THEN <<SleepEvent(Pow2(k))>> ELSE <<>>)
           \o TimeoutJournal(k + 1, n, req)

AllTimedOut ==
    /\ Attempts # <<>>
    /\ \A i \in 1..Len(Attempts) : Attempts[i].answer \in TimeoutResponses

\* C10: when every attempt times out (retries >= 1), exactly `retries`
\* requests are made, attempt k (from 0) is followed by a sleep of 2^k seconds
\* except the last one, which is followed by none, and the call raises
\* TensalisTimeoutError.
C10_TimeoutsBackOffThenRaise ==
    (Finished /\ AllTimedOut) =>
        /\ Len(Attempts) = retries
        /\ rq.log = TimeoutJournal(0, retries, request)
        /\ Len(Sleeps) = retries - 1
        /\ \A k \in 1..Len(Sleeps) : Sleeps[k].secs = 2 ^ (k - 1)
        /\ rq.log[Len(rq.log)].ev = "request"
        /\ rq.outcome = Some(Raise(TensalisTimeoutError))

C10_Witness ==
    /\ Finished
    /\ AllTimedOut
    /\ retries = 3
    /\ Len(Attempts) = 3
    /\ Sleeps = <<SleepEvent(1), SleepEvent(2)>>
    /\ rq.outcome = Some(Raise(TensalisTimeoutError))

\* positions of the journal holding a request answered from the set answers
AnsweredFrom(answers) ==
    { p \in 1..Len(rq.log) : IsRequest(rq.log[p]) /\ rq.log[p].answer \in answers }

LastAnswer == Attempts[Len(Attempts)].answer

\* C11: a 429 answer is followed by a sleep of its Retry-After seconds (1
\* without the header) and by nothing else before the next request; the next
\* request, made whenever the 429 was not the last attempt of the budget, has
\* the same method, path and payload and the next attempt number; a call
\* whose last request is answered below 400 returns that body.
C11_RateLimitSleepsAndRetries ==
    /\ \A p \in AnsweredFrom(RateLimitResponses) :
         /\ Len(rq.log) >= p + 1
         /\ rq.log[p + 1] =
              SleepEvent(IF rq.log[p].answer.retry_after = <<>>
                           THEN 1 ELSE rq.log[p].answer.retry_after[1])
         /\ Len(rq.log) >= p + 2 =>
              /\ IsRequest(rq.log[p + 2])
              /\ rq.log[p + 2].req = rq.log[p].req
              /\ rq.log[p + 2].attempt = rq.log[p].attempt + 1
         /\ (Finished /\ rq.log[p].attempt + 1 < retries) => Len(rq.log) >= p + 2
         /\ rq.log[p].attempt < retries
    /\ (Finished /\ Attempts # <<>> /\ LastAnswer \in OkResponses) =>
         rq.outcome = Some(Return(LastAnswer.content[1]))

C11_Witness ==
    /\ Finished
    /\ Len(Attempts) = 3
    /\ Attempts[1].answer = HttpResponse(RateLimited, Some(2), None)
    /\ Attempts[2].answer = HttpResponse(RateLimited, None, None)
    /\ Attempts[3].answer \in OkResponses
    /\ Sleeps = <<SleepEvent(2), SleepEvent(1)>>
    /\ Attempts[3].req = request
    /\ request # HealthRequest
    /\ rq.outcome[1].kind = "return"

\* C12: a call whose every attempt is answered 429 raises a rate limit error;
\* a call whose last request is answered below 400 raises nothing.
C12_PersistentRateLimitRaisesRateLimitError ==
    /\ (Finished /\ Attempts # <<>>
          /\ \A i \in 1..Len(Attempts) : Attempts[i].answer \in RateLimitResponses) =>
         /\ rq.outcome[1].kind = "raise"
         /\ rq.outcome[1].error.type = "TensalisRateLimitError"
    /\ (Finished /\ Attempts # <<>> /\ LastAnswer \in OkResponses) =>
         rq.outcome[1].kind = "return"

\* C13: an answer with status >= 400 other than 429 ends the call at that
\* attempt: nothing follows it in the journal (no sleep, no request) and the
\* call raises TensalisAPIError with that status code and the parsed body.
C13_HttpErrorRaisesAtOnce ==
    \A p \in AnsweredFrom(ErrorResponses) :
        /\ p = Len(rq.log)
        /\ Finished
        /\ rq.outcome[1].kind = "raise"
        /\ rq.outcome[1].error.type = "TensalisAPIError"
        /\ rq.outcome[1].error.status_code = rq.log[p].answer.status_code
        /\ rq.outcome[1].error.response =
             (IF rq.log[p].answer.content = <<>>
                THEN EmptyDict ELSE rq.log[p].answer.content[1])

C13_Witness ==
    /\ Finished
    /\ retries = 3
    /\ Len(Attempts) = 1
    /\ rq.log = <<RequestEvent(request, 0,
                     HttpResponse(400, None, Some([error |-> "Invalid request"])))>>
    /\ rq.outcome[1].error.response = [error |-> "Invalid request"]
    /\ rq.outcome[1].error.message = "Invalid request"

\* C14: when the budget is used up the error raised is that of the last
\* attempt: a timeout error when it timed out, a connection error when it was
\* a connection failure.
C14_ErrorReflectsLastFailure ==
    (Finished /\ Attempts # <<>> /\ Len(Attempts) = retries) =>
        /\ LastAnswer \in TimeoutResponses =>
             rq.outcome = Some(Raise(TensalisTimeoutError))
        /\ LastAnswer \in FailureResponses =>
             /\ rq.outcome[1].kind = "raise"
             /\ rq.outcome[1].error.type = "TensalisConnectionError"

----------------------------------------------------------------------------
(* A TensalisClient.verify call: the payload is built, _request runs one   *)
(* loop iteration per step, the body is wrapped or the error propagates.   *)

VerifyResponses == { "", "text" }
VerifyContexts ==
    { StrContext("fact"), StrContext(""), ListContext(<<"fact">>),
      ListContext(<<"fact", "more">>), ListContext(<<>>) }
VerifyMetadata == { None, Some(EmptyDict), Some([trace |-> "t1"]) }

VerifyArgs ==
    [response : VerifyResponses, context : VerifyContexts, metadata : VerifyMetadata]

InitVerify ==
    /\ retries \in 0..MaxRetries
    /\ request = HealthRequest
    /\ rq = RequestStart
    /\ args \in VerifyArgs
    /\ vpc = "called"
    /\ returned = None
    /\ StreamIdle
    /\ VerdictIdle
    /\ PairIdle

\* verify up to the call of self._request
VerifyBuildsPayload ==
    /\ vpc = "called"
    /\ request' = VerifyRequest(VerifyPayload(args.response, args.context, args.metadata))
    /\ rq' = RequestStart
    /\ vpc' = "requesting"
    /\ UNCHANGED <<retries, args, returned, streamVars, verdictVars, pairVars>>

\* self._request at work
VerifyRequesting ==
    /\ vpc = "requesting"
    /\ NextRequest

\* return VerificationResult(data)
VerifyReturns ==
    /\ vpc = "requesting"
    /\ Finished
    /\ rq.outcome[1].kind = "return"
    /\ returned' = Some(verify(args.response, args.context, args.metadata,
                               rq.outcome[1]).outcome)
    /\ vpc' = "returned"
    /\ UNCHANGED <<retries, request, rq, args, streamVars, verdictVars, pairVars>>

\* the error of self._request leaves verify
VerifyRaises ==
    /\ vpc = "requesting"
    /\ Finished
    /\ rq.outcome[1].kind = "raise"
    /\ returned' = Some(verify(args.response, args.context, args.metadata,
                               rq.outcome[1]).outcome)
    /\ vpc' = "raised"
    /\ UNCHANGED <<retries, request, rq, args, streamVars, verdictVars, pairVars>>

NextVerify ==
    \/ VerifyBuildsPayload
    \/ VerifyRequesting
    \/ VerifyReturns
    \/ VerifyRaises

SpecVerify == InitVerify /\ [][NextVerify]_vars

\* C15: a context given as the string s is sent as reference_facts = [s]: the
\* request that verify hands to _request, and every HTTP request made for it,
\* is the one that verify builds for the one-element list [s].
C15_StringContextIsSingleton ==
    (vpc # "called" /\ args.context.type = "str") =>
        /\ request.payload[1].reference_facts = <<args.context.value>>
        /\ request = VerifyRequest(VerifyPayload(args.response,
                         ListContext(<<args.context.value>>), args.metadata))
        /\ request.payload[1].response = args.response
        /\ \A i \in 1..Len(Attempts) : Attempts[i].req = request

C15_Witness ==
    /\ vpc = "returned"
    /\ args.context = StrContext("fact")
    /\ args.metadata = Some([trace |-> "t1"])
    /\ Len(Attempts) = 2
    /\ Attempts[2].req.payload[1] =
         [response |-> args.response, reference_facts |-> <<"fact">>,
          metadata |-> [trace |-> "t1"]]

\* C16: with an empty response or an empty context, verify makes no HTTP
\* request and raises a validation error.
EmptyInput ==
    \/ args.response = ""
    \/ args.context = StrContext("")
    \/ args.context = ListContext(<<>>)

C16_EmptyInputIsRejected ==
    EmptyInput =>
        /\ Attempts = <<>>
        /\ vpc # "returned"
        /\ vpc = "raised" => returned[1].error.type = "TensalisValidationError"

----------------------------------------------------------------------------
(* A VerificationResult object and the dicts around it.  heap holds the    *)
(* dict objects by identity: "d0" is the dict given to the constructor,    *)
(* "d1", "d2", ... are the dicts returned by to_dict.  `held` says that    *)
(* the code that uses the object has a reference to the dict: always for   *)
(* a dict it got from to_dict, for "d0" when it built the dict itself and  *)
(* kept it (VerificationResult(data) in a caller), not when verify passed  *)
(* the fresh result of response.json().                                    *)

MaxCopies == 1

\* dict.get(key): None when the key is absent
OptGet(d, key) == IF key \in DOMAIN d THEN Some(d[key]) ELSE None

severity(r) == OptGet(r.data, "severity")
reason(r) == OptGet(r.data, "reason")
confidence(r) == OptGet(r.data, "confidence")
layer(r) == OptGet(r.data, "layer")
latency_ms(r) == OptGet(r.data, "latency_ms")

\* d[key] = value, del d[key]
DictSet(d, key, value) ==
    [k \in DOMAIN d \cup {key} |-> IF k = key THEN value ELSE d[k]]
DictDel(d, key) == [k \in DOMAIN d \ {key} |-> d[k]]

VerdictPayloads ==
    Payloads \cup
    { [status |-> "WARNING"],
      [severity |-> "HIGH"],
      [status |-> "BLOCKED", severity |-> "HIGH", reason |-> "Contradiction detected",
       confidence |-> "0.94", layer |-> "cascading_nli", latency_ms |-> 12] }

DictId(n) == IF n = 0 THEN "d0" ELSE IF n = 1 THEN "d1" ELSE IF n = 2 THEN "d2" ELSE "d3"

\* the object as its accessors see it now: self._data is a reference
Deref(h, r) == VerificationResult(h[r.data].dict)

\* everything the accessors of the object return
Attributes(r) ==
    [status |-> status(r), severity |-> severity(r), reason |-> reason(r),
     confidence |-> confidence(r), layer |-> layer(r), latency_ms |-> latency_ms(r),
     is_blocked |-> is_blocked(r), is_verified |-> is_verified(r)]

InitVerdict ==
    /\ heap \in { [d0 |-> [dict |-> p, held |-> h]] : p \in VerdictPayloads,
                                                    h \in BOOLEAN }
    /\ verdict = None
    /\ built = None
    /\ retries = DefaultRetries
    /\ request = HealthRequest
    /\ rq = RequestStart
    /\ StreamIdle
    /\ VerifyIdle
    /\ PairIdle

\* VerificationResult(data): self._data = data
Construct ==
    /\ verdict = None
    /\ verdict' = Some(VerificationResult("d0"))
    /\ built' = Some([payload |-> heap["d0"].dict,
                      attributes |-> Attributes(Deref(heap, VerificationResult("d0")))])
    /\ UNCHANGED <<heap, retries, request, rq, streamVars, verifyVars, pairVars>>

\* to_dict(): return self._data.copy(), a new dict given to the caller
ToDict ==
    /\ verdict # None
    /\ \E n \in 1..MaxCopies :
         /\ DictId(n) \notin DOMAIN heap
         /\ \A m \in 1..(n - 1) : DictId(m) \in DOMAIN heap
         /\ heap' = [id \in DOMAIN heap \cup {DictId(n)} |->
                       IF id = DictId(n)
                         THEN [dict |-> to_dict(Deref(heap, verdict[1])), held |-> TRUE]
                         ELSE heap[id]]
    /\ UNCHANGED <<verdict, built, retries, request, rq, streamVars, verifyVars, pairVars>>

Statuses == {"VERIFIED", "BLOCKED", "WARNING"}

\* the holder of a dict assigns one of its keys
HolderSetsKey ==
    /\ verdict # None
    /\ \E id \in DOMAIN heap, v \in Statuses :
         /\ heap[id].held
         /\ heap' = [heap EXCEPT ![id].dict = DictSet(@, "status", v)]
    /\ UNCHANGED <<verdict, built, retries, request, rq, streamVars, verifyVars, pairVars>>

\* the holder of a dict deletes one of its keys
HolderDeletesKey ==
    /\ verdict # None
    /\ \E id \in DOMAIN heap, key \in {"status", "severity"} :
         /\ heap[id].held
         /\ key \in DOMAIN heap[id].dict
         /\ heap' = [heap EXCEPT ![id].dict = DictDel(@, key)]
    /\ UNCHANGED <<verdict, built, retries, request, rq, streamVars, verifyVars, pairVars>>

NextVerdict ==
    \/ Construct
    \/ ToDict
    \/ HolderSetsKey
    \/ HolderDeletesKey

SpecVerdict == InitVerdict /\ [][NextVerdict]_vars

----------------------------------------------------------------------------
(* Claims about the VerificationResult object, over SpecVerdict.           *)

\* C17 (as stated): for every payload, is_verified of the object built from
\* it is true if and only if "status" is absent from the payload.
C17_VerifiedIffStatusAbsent ==
    built # None =>
        (built[1].attributes.is_verified <=> "status" \notin DOMAIN built[1].payload)

\* C17 (amended): is_verified of the object built from a payload is true if
\* and only if "status" is absent from the payload or equal to "VERIFIED";
\* in particular a payload without "status" gives a verified object.
C17_VerifiedIffStatusAbsentOrVerified ==
    built # None =>
        /\ "status" \notin DOMAIN built[1].payload => built[1].attributes.is_verified
        /\ built[1].attributes.is_verified <=>
              \/ "status" \notin DOMAIN built[1].payload
              \/ built[1].payload.status = "VERIFIED"

C17_Witness ==
    /\ built # None
    /\ "status" \notin DOMAIN built[1].payload
    /\ built[1].attributes.is_verified
    /\ built[1].attributes.status = "VERIFIED"

\* C18: for every object, is_blocked holds exactly when its status is
\* "BLOCKED" and is_verified exactly when its status is "VERIFIED", the
\* status being the payload's or "VERIFIED" when the payload has none; the
\* two are never both true, and a WARNING object is neither.
C18_BlockedAndVerifiedFollowStatus ==
    built # None =>
        LET a == built[1].attributes
            p == built[1].payload
        IN  /\ a.status = (IF "status" \in DOMAIN p THEN p.status ELSE "VERIFIED")
            /\ a.is_blocked <=> a.status = "BLOCKED"
            /\ a.is_verified <=> a.status = "VERIFIED"
            /\ ~(a.is_blocked /\ a.is_verified)
            /\ a.status = "WARNING" => ~a.is_blocked /\ ~a.is_verified

C18_Witness ==
    /\ built # None
    /\ built[1].attributes.status = "WARNING"
    /\ ~built[1].attributes.is_blocked
    /\ ~built[1].attributes.is_verified

\* C19 (as stated): once constructed, the attributes of the object (status,
\* severity, reason, confidence, layer, latency_ms, is_blocked, is_verified)
\* never change, whatever is done afterwards to the dicts obtained from
\* to_dict or to anything else; and each to_dict returns a dict equal to the
\* payload.
C19_VerdictNeverChanges ==
    /\ [](verdict # None =>
            Attributes(Deref(heap, verdict[1])) = built[1].attributes)
    /\ [][ToDict => \E id \in DOMAIN heap' \ DOMAIN heap :
                       heap'[id].dict = built[1].payload]_vars

----------------------------------------------------------------------------
(* Two verify_stream calls on one client.  Each call creates a generator;  *)
(* sessions maps a generator to its frame: its arguments (context,         *)
(* check_interval, the chunks response_stream will deliver), its locals    *)
(* (accumulated, token_count, result), the yield it is suspended at, and   *)
(* the journal of what it pulled, which self.verify calls it made with     *)
(* which answers, and what its consumer received.  The client itself       *)
(* (self.retries) is shared.                                               *)

MaxPairRequests == 4

SessionIds == { "s1", "s2" }
PairSources == { << <<"a", " ">>, <<"b">> >>, << <<"c", " ", "d">>, <<"b">> >> }
PairIntervals == { 1, 2 }
PairAnswers ==
    RequestOutcomes[retries] \cap
        ({ Return(p) : p \in Payloads } \cup { Raise(TensalisTimeoutError) })

\* the frame of a generator that has not run yet: verify_stream(src, c, interval)
StartFrame(c, interval, src) ==
    [context |-> c, check_interval |-> interval, source |-> src,
     pc |-> "start", accumulated |-> <<>>, token_count |-> 0, result |-> None,
     pulled |-> <<>>, calls |-> <<>>, answers |-> <<>>, received |-> <<>>]

\* resuming after the yield that follows self.verify: if result.is_blocked: return
FrameReturnsOnResume(f) == f.pc = "yield_checked" /\ is_blocked(f.result[1])

\* token_count at the for statement (token_count = 0 runs on resume after a check)
FrameCountAtLoopHead(f) == IF f.pc = "yield_checked" THEN 0 ELSE f.token_count

\* the next() will pull a chunk
Pulls(f) ==
    /\ f.pc \in {"start", "yield_checked", "yield_pending"}
    /\ ~FrameReturnsOnResume(f)
    /\ Len(f.pulled) < Len(f.source)

NextChunk(f) == f.source[Len(f.pulled) + 1]

\* the next() will call self.verify
Checks(f) ==
    /\ Pulls(f)
    /\ ThresholdReached(FrameCountAtLoopHead(f) + TokenCount(NextChunk(f)),
                        f.check_interval)

\* one next() on the generator with frame f; out is the outcome of the
\* _request made by self.verify, if this next() gets there
Resume(f, out) ==
    IF f.pc = "done" \/ FrameReturnsOnResume(f)
      THEN [f EXCEPT !.pc = "done", !.received = Append(@, StopIteration)]
    ELSE IF ~Pulls(f)
      THEN [f EXCEPT !.token_count = FrameCountAtLoopHead(f),
                     !.pc = "done",
                     !.received = Append(@, StopIteration)]
    ELSE LET chunk == NextChunk(f)
             acc == f.accumulated \o chunk
             count == FrameCountAtLoopHead(f) + TokenCount(chunk)
             pulling == [f EXCEPT !.pulled = Append(@, chunk),
                                  !.accumulated = acc,
                                  !.token_count = count]
         IN  IF ~ThresholdReached(count, f.check_interval)
               THEN [pulling EXCEPT !.pc = "yield_pending",
                                    !.received = Append(@, Unit(PendingUnit(chunk)))]
             ELSE LET call == verify(CheckedText(acc, chunk), f.context, None, out)
                      called == [pulling EXCEPT !.calls = Append(@, call),
                                                !.answers = Append(@, out)]
                  IN  IF call.outcome.kind = "return"
                        THEN [called EXCEPT
                                !.result = Some(call.outcome.value),
                                !.pc = "yield_checked",
                                !.received = Append(@, Unit(CheckedUnit(chunk, call.outcome.value)))]
                        ELSE [called EXCEPT
                                !.pc = "done",
                                !.received = Append(@, Raised(call.outcome.error))]

\* variant: accumulated is kept on the client instead of in the generator
StoreSharesAccumulated(ss, id, f) ==
    [k \in DOMAIN ss |-> IF k = id THEN f
                         ELSE [ss[k] EXCEPT !.accumulated = f.accumulated]]

\* the locals written by a next() are those of the generator that ran
Store(ss, id, f) == [ss EXCEPT ![id] = f]

InitPair ==
    /\ retries = DefaultRetries
    /\ sessions \in [SessionIds ->
                       { StartFrame(c, interval, src) :
                           c \in Contexts, interval \in PairIntervals, src \in PairSources }]
    /\ request = HealthRequest
    /\ rq = RequestStart
    /\ StreamIdle
    /\ VerifyIdle
    /\ VerdictIdle

\* the consumer of one of the generators calls next() on it
SessionNext ==
    /\ \E id \in SessionIds, out \in PairAnswers :
         /\ Len(sessions[id].received) < MaxPairRequests
         /\ sessions' = Store(sessions, id, Resume(sessions[id], out))
    /\ UNCHANGED <<retries, request, rq, streamVars, verifyVars, verdictVars>>

NextPair == SessionNext

SpecPair == InitPair /\ [][NextPair]_vars

\* the generator consumed alone: n next() calls from the start, the checks
\* getting the given answers in order
RECURSIVE Alone(_, _, _)
Alone(f, answers, n) ==
    IF n = 0 THEN f
    ELSE IF ~Checks(f) THEN Alone(Resume(f, Raise(TensalisRetriesFailed)), answers, n - 1)
    ELSE IF answers = <<>> THEN f
    ELSE Alone(Resume(f, Head(answers)), Tail(answers), n - 1)

\* C20: when two streaming sessions on the same client are consumed in any
\* interleaving of next() requests, each of them has pulled the same chunks,
\* made the same self.verify calls and delivered the same units as the same
\* verify_stream call consumed alone for as many next() requests with the
\* same verifier answers.
C20_SessionsAreIndependent ==
    \A id \in DOMAIN sessions :
        LET f == sessions[id]
            alone == Alone(StartFrame(f.context, f.check_interval, f.source),
                           f.answers, Len(f.received))
        IN  /\ f.pulled = alone.pulled
            /\ f.calls = alone.calls
            /\ f.received = alone.received

C20_Witness ==
    /\ DOMAIN sessions = SessionIds
    /\ \A id \in SessionIds :
         /\ sessions[id].pc \in {"yield_pending", "yield_checked"}
         /\ Len(sessions[id].pulled) = 1
    /\ sessions["s1"].source # sessions["s2"].source
    /\ \E id \in SessionIds :
         /\ sessions[id].pc = "yield_pending"
         /\ Len(sessions[id].source) > 1
         /\ Checks(sessions[id])

----------------------------------------------------------------------------
(* The token counter of verify_stream, read from the journal of a session  *)
(* under SpecStream.                                                       *)

RECURSIVE TokensIn(_)
TokensIn(chunks) ==
    IF chunks = <<>> THEN 0 ELSE TokenCount(Head(chunks)) + TokensIn(Tail(chunks))

\* tokens of the chunks pulled after the chunk of the last check
TokensSinceCheck == TokensIn(SubSeq(pulled, LastChecked + 1, Len(pulled)))

\* C21: a check fires on a chunk exactly when the tokens pulled since the
\* last check, this chunk's whitespace-delimited tokens included, are >=
\* check_interval; the count restarts from 0 after a check that did not
\* block, so the tokens by which a multi-token chunk exceeded the interval
\* do not count toward the next check.
C21_CheckFiresAtThreshold ==
    [][Len(pulled') > Len(pulled) =>
         LET chunk == pulled'[Len(pulled')]
             counter == TokensSinceCheck + TokenCount(chunk)
         IN  /\ Len(calls') > Len(calls) <=> counter >= check_interval
             /\ token_count' = counter]_vars

C21_Witness ==
    /\ check_interval = 2
    /\ pulled = << <<"a", " ">>, <<"c", " ", "d">>, <<"b">> >>
    /\ Len(calls) = 1
    /\ Len(Units) = 3
    /\ Units[2].unit.status # "PENDING"
    /\ Units[3].unit.status = "PENDING"
    /\ token_count = 1

\* the last next() delivered a unit with this status
LastUnitHas(st) ==
    /\ received # <<>>
    /\ IsUnit(received[Len(received)])
    /\ received[Len(received)].unit.status = st

\* C22: a unit has status PENDING exactly when no verification call was made
\* for its chunk; a unit emitted after a check that did not block has the
\* status of that check's verdict, VERIFIED or WARNING; and a WARNING verdict
\* does not end the stream: as after VERIFIED, the next next() pulls the next
\* chunk with the counter restarted from 0.
C22_StatusFollowsTheCheck ==
    /\ [][Len(Units') > Len(Units) =>
            LET u == Units'[Len(Units')].unit
            IN  /\ u.status = "PENDING" <=> calls' = calls
                /\ calls' # calls =>
                     LET call == calls'[Len(calls')]
                     IN  /\ call.outcome.kind = "return"
                         /\ u.status = status(call.outcome.value)
                         /\ ~is_blocked(call.outcome.value) =>
                               u.status \in {"VERIFIED", "WARNING"}]_vars
    /\ []((/\ LastUnitHas("WARNING") \/ LastUnitHas("VERIFIED")
           /\ Len(received) < MaxRequests
           /\ Len(pulled) < MaxChunks) =>
             /\ ENABLED (NextPending \/ NextChecked)
             /\ ~ENABLED NextAfterBlocked)
    /\ [][((LastUnitHas("WARNING") \/ LastUnitHas("VERIFIED"))
            /\ Len(pulled') > Len(pulled)) =>
              token_count' = TokenCount(pulled'[Len(pulled')])]_vars

C22_Witness ==
    /\ Len(Units) >= 3
    /\ Units[1].unit.status = "PENDING"
    /\ Units[2].unit.status = "WARNING"
    /\ Units[3].unit.status = "PENDING"
    /\ Len(calls) = 1
    /\ status(calls[1].outcome.value) = "WARNING"

----------------------------------------------------------------------------
(* More properties of _request, checked under SpecRequest *)

\* positions of the journal before p holding a request that timed out or failed
FailuresBefore(p) ==
    { q \in AnsweredFrom(TimeoutResponses \cup FailureResponses) : q < p }

\* a 429 is followed by its Retry-After sleep and then, if by anything, by
\* the next request; it uses up an attempt number
RateLimitSleepsOnce ==
    /\ \A p \in AnsweredFrom(RateLimitResponses) :
         /\ Len(rq.log) >= p + 1
         /\ IsSleep(rq.log[p + 1])
         /\ rq.log[p + 1].secs =
              (IF rq.log[p].answer.retry_after = <<>>
                 THEN 1 ELSE rq.log[p].answer.retry_after[1])
         /\ Len(rq.log) >= p + 2 => IsRequest(rq.log[p + 2])
    /\ Len(Attempts) <= retries
    /\ \A i \in 1..Len(Attempts) : Attempts[i].attempt = i - 1

\* C23 (as stated): a 429 attempt is followed by the Retry-After sleep only
\* and uses up an attempt, and the backoff sleep after a later timeout or
\* connection failure is 2^(number of earlier timeouts and connection
\* failures), whatever the number of 429 answers before it.
C23_RateLimitOutsideBackoffSchedule ==
    /\ RateLimitSleepsOnce
    /\ \A p \in AnsweredFrom(TimeoutResponses \cup FailureResponses) :
         (Len(rq.log) > p /\ IsSleep(rq.log[p + 1])) =>
             rq.log[p + 1].secs = 2 ^ Cardinality(FailuresBefore(p))

\* C23 (amended): a 429 attempt is followed by the Retry-After sleep only (no
\* 2^attempt sleep) and uses up an attempt; it does advance the backoff
\* schedule: the sleep after a timeout or connection failure that is not the
\* last attempt of the budget is 2^k seconds, k being the number of all
\* earlier attempts of the call, the 429 ones included.
C23_RateLimitAdvancesBackoff ==
    /\ RateLimitSleepsOnce
    /\ \A p \in AnsweredFrom(TimeoutResponses \cup FailureResponses) :
         LET k == Cardinality({ q \in 1..(p - 1) : IsRequest(rq.log[q]) })
         IN  IF k < retries - 1
               THEN rq.log[p + 1] = SleepEvent(2 ^ k)
               ELSE Len(rq.log) = p

C23_Witness ==
    /\ Finished
    /\ retries = 3
    /\ Len(Attempts) = 3
    /\ Attempts[1].answer \in RateLimitResponses
    /\ Attempts[2].answer \in TimeoutResponses
    /\ Attempts[3].answer \in OkResponses
    /\ Sleeps = <<SleepEvent(1), SleepEvent(2)>>

----------------------------------------------------------------------------
(* More properties of verify_stream, checked under SpecStream *)

\* the generator is suspended where its next step is `for chunk in response_stream`
AboutToPull == pc \in {"start", "yield_checked", "yield_pending"} /\ ~ReturnsOnResume

\* C24: with a positive check_interval, whenever the generator is about to
\* pull the next chunk its token counter is at least 0 and below
\* check_interval, and accumulated is the concatenation of all the chunks
\* pulled so far.
C24_LoopInvariant ==
    AboutToPull =>
        /\ 0 <= CountAtLoopHead
        /\ CountAtLoopHead < check_interval
        /\ CountAtLoopHead = TokensSinceCheck
        /\ accumulated = Concat(pulled)

C24_Witness ==
    /\ AboutToPull
    /\ pc = "yield_pending"
    /\ check_interval = 2
    /\ CountAtLoopHead = 1
    /\ Len(calls) >= 1
    /\ Len(pulled) >= 3
    /\ accumulated = Concat(pulled)
    /\ accumulated # pulled[Len(pulled)]

\* C25: the `result` field of a unit carries a verdict payload if and only if
\* the status of the unit is BLOCKED; PENDING, VERIFIED and WARNING units
\* carry None.
C25_ResultOnlyWhenBlocked ==
    \A i \in 1..Len(Units) :
        /\ Units[i].unit.result # None <=> Units[i].unit.status = "BLOCKED"
        /\ Units[i].unit.status \in {"PENDING", "VERIFIED", "WARNING"} =>
              Units[i].unit.result = None
        /\ Units[i].unit.status \in {"PENDING", "VERIFIED", "WARNING", "BLOCKED"}

C25_Witness ==
    /\ Len(Units) = 4
    /\ Units[1].unit.status = "PENDING"
    /\ Units[2].unit.status = "WARNING"
    /\ Units[3].unit.status = "VERIFIED"
    /\ Units[4].unit.status = "BLOCKED"
    /\ Units[4].unit.result = Some([status |-> "BLOCKED", severity |-> "HIGH"])
    /\ \A i \in 1..3 : Units[i].unit.result = None

----------------------------------------------------------------------------
(* Progress.  A run is either one _request call or one streaming session;  *)
(* the loop of _request goes on by itself (every self._session.request     *)
(* ends, by an answer, the timeout or a failure, and every sleep ends),    *)
(* and the consumer of the stream keeps calling next().  response_stream   *)
(* delivers at most MaxChunks chunks, and self.verify returns or raises    *)
(* inside the next() that called it.                                       *)

\* the context argument plays no part in progress: one form of it is enough
InitLive == InitRequest \/ (InitStream /\ context = ListContext(<<"fact">>))

\* a step of the _request call of a run that is one
RequestRuns ==
    /\ pc = "idle"
    /\ NextRequest

NextLive ==
    \/ RequestRuns
    \/ NextStream

SpecLive ==
    /\ InitLive
    /\ [][NextLive]_vars
    /\ WF_vars(RequestRuns)
    /\ WF_vars(NextStream)

\* result i of the session is a terminal one: the end of the source (the
\* first StopIteration), an error, or the BLOCKED unit
TerminalAt(i) ==
    \/ received[i] = StopIteration
    \/ received[i].kind = "raised"
    \/ IsUnit(received[i]) /\ received[i].unit.status = "BLOCKED"

Terminated == \E i \in 1..Len(received) : TerminalAt(i)

\* C26: a streaming session whose consumer keeps requesting eventually gets
\* a terminal result (end of the source, the BLOCKED unit, or an error), a
\* session has one such result only, followed by nothing but StopIteration
\* (no unit, no error), and every _request call eventually returns a body
\* or raises.
C26_EverythingEnds ==
    /\ <>((pc # "idle" /\ Terminated) \/ (pc = "idle" /\ Finished))
    /\ [](\A i \in 1..Len(received) : TerminalAt(i) => OnlyStopIterationAfter(i))

C26_Witness ==
    /\ Terminated
    /\ Len(pulled) = MaxChunks
    /\ BlockedCalls = {}
    /\ RaisedCalls = {}
    /\ received[Len(received)] = StopIteration
    /\ received[Len(received) - 1] = StopIteration

----------------------------------------------------------------------------
(* The empty retry budget, checked under SpecRequest (retries = 0 in its   *)
(* states) and on the call as a function for the negative values.          *)

NonPositiveRetries == { -2, -1, 0 }

\* the loop of the call ran out: no answer ended it from inside
BudgetEnded ==
    /\ Finished
    /\ AnsweredFrom(OkResponses \cup ErrorResponses) = {}

====
